---- MODULE Spec2Model ----
(***************************************************************************)
(* Model of src/src/model.rs: the Ontology interning table (id_str, fed by *)
(* the process-wide COUNTER), the Checkable validation protocol, the      *)
(* validate-then-deduplicate constructors and the direct-subclass queries. *)
(***************************************************************************)
EXTENDS Integers, Sequences, FiniteSets, TLC

VARIABLES
    COUNTER,          \* static mut COUNTER: usize
    id_str,           \* Ontology.id_str: BiMap<usize,String>, one per instance
    class,            \* Ontology.class: HashSet<Class>
    subclass,         \* Ontology.subclass: HashSet<SubClass>
    object_property,  \* Ontology.object_property: HashSet<ObjectProperty>
    some,             \* Ontology.some: HashSet<ClassExpression>
    and,              \* Ontology.and: HashSet<And>
    last,             \* the method called last and how it ended
    thread            \* per thread that owns an instance: where it is in iri

collections == <<class, subclass, object_property, some, and>>
store == <<COUNTER, id_str, class, subclass, object_property, some, and>>
vars == <<COUNTER, id_str, class, subclass, object_property, some, and, last, thread>>

(***************************************************************************)
(* Bounds of the model.                                                    *)
(***************************************************************************)
\* width of usize in the model
UsizeBits == 4
\* Spec: identifiers allocated in one run
MaxIds == 2
\* Spec: Class and ObjectProperty values inserted, over all instances
MaxEntities == 1
\* Spec: SubClass and Some values inserted, over all instances
MaxExpressions == 1
\* operands of an And / Or a caller builds
MaxOperands == 1
\* nesting of the expressions a caller passes to a method
MaxDepth == 1
\* SpecQuery: identifiers allocated in one run
QueryMaxIds == 3
\* SpecQuery: SubClass values inserted, over all instances
MaxAxioms == 2

\* the Ontology instances of the process
Onts == {"O1", "O2"}
\* Spec: the names a caller interns into each instance
Names == [o \in Onts |-> IF o = "O1" THEN {"Animal", "Dog"} ELSE {"Animal"}]
\* SpecQuery: the names a caller interns into each instance
QueryNames == [o \in Onts |-> IF o = "O1" THEN {"Animal", "Dog", "Cat"} ELSE {"Animal"}]

UsizeModulus == 2 ^ UsizeBits

(***************************************************************************)
(* bimap::BiMap<usize,String>: two maps kept as inverses of each other.    *)
(***************************************************************************)
BiMap_new == [left2right |-> <<>>, right2left |-> <<>>]

Without(f, x) == [y \in (DOMAIN f) \ {x} |-> f[y]]

BiMap_contains_left(m, l) == l \in DOMAIN m.left2right

BiMap_contains_right(m, r) == r \in DOMAIN m.right2left

\* Option<&R>: <<>> is None, <<r>> is Some(r)
BiMap_get_by_left(m, l) ==
    IF l \in DOMAIN m.left2right THEN <<m.left2right[l]>> ELSE <<>>

BiMap_get_by_right(m, r) ==
    IF r \in DOMAIN m.right2left THEN <<m.right2left[r]>> ELSE <<>>

BiMap_remove_by_left(m, l) ==
    IF l \in DOMAIN m.left2right
    THEN [left2right |-> Without(m.left2right, l),
          right2left |-> Without(m.right2left, m.left2right[l])]
    ELSE m

BiMap_remove_by_right(m, r) ==
    IF r \in DOMAIN m.right2left
    THEN [left2right |-> Without(m.left2right, m.right2left[r]),
          right2left |-> Without(m.right2left, r)]
    ELSE m

\* mutant of BiMap_insert: the pairs held before are forgotten
BiMap_insert_forgetting(m, l, r) ==
    [left2right |-> (l :> r), right2left |-> (r :> l)]

\* insert overwrites: a pair with the same left or the same right is removed
BiMap_insert(m, l, r) ==
    LET m1 == BiMap_remove_by_right(BiMap_remove_by_left(m, l), r)
    IN  [left2right |-> (l :> r) @@ m1.left2right,
         right2left |-> (r :> l) @@ m1.right2left]

(***************************************************************************)
(* The entity and expression types.                                        *)
(***************************************************************************)
IRI(n) == [iri |-> n]

Class(i) == [type |-> "Class", iri |-> i]

ObjectProperty(i) == [type |-> "ObjectProperty", iri |-> i]

SubClass(sup, sub) == [superclass |-> sup, subclass |-> sub]

Some(p, f) == [object_property |-> p, filler |-> f]

And(ops) == [operands |-> ops]

\* enum ClassExpression { Class(Class), Some(Some), And(And), Or(And) }
CE_Class(c) == [tag |-> "Class", class |-> c]

CE_Some(s) == [tag |-> "Some", some |-> s]

CE_And(a) == [tag |-> "And", and |-> a]

CE_Or(a) == [tag |-> "Or", and |-> a]

(***************************************************************************)
(* Read-only methods of Ontology, on instance o.                           *)
(***************************************************************************)
contains_id(o, id) == BiMap_contains_left(id_str[o], id)

contains_iri(o, s) == BiMap_contains_right(id_str[o], s)

iri_to_str(o, i) == BiMap_get_by_left(id_str[o], i.iri)

(***************************************************************************)
(* Checkable: "ok", or the message of the panic that check ends in.        *)
(***************************************************************************)
OK == "ok"

check_IRI(i, o) ==
    IF ~contains_id(o, i.iri)
    THEN "Attempt to add IRI to wrong ontology" ELSE OK

\* mutant of check_Class: the negation of the membership test is lost
check_Class_negation_lost(c, o) ==
    IF contains_id(o, c.iri.iri)
    THEN "Attempt to add class to wrong ontology" ELSE OK

check_Class(c, o) ==
    IF ~contains_id(o, c.iri.iri)
    THEN "Attempt to add class to wrong ontology" ELSE OK

\* mutant of check_ObjectProperty: the membership test is left out
check_ObjectProperty_unchecked(p, o) == OK

check_ObjectProperty(p, o) ==
    IF ~contains_id(o, p.iri.iri)
    THEN "Attempt to add object property to wrong ontology" ELSE OK

RECURSIVE check_ClassExpression(_, _)
RECURSIVE check_operands(_, _)

\* for i in &self.operands { i.check(ont) }: the first failing operand panics
\* mutant of check_operands: only the first operand is checked
check_operands_first_only(ops, o) ==
    IF ops = <<>> THEN OK ELSE check_ClassExpression(Head(ops), o)

check_operands(ops, o) ==
    IF ops = <<>> THEN OK
    ELSE LET r == check_ClassExpression(Head(ops), o)
         IN  IF r # OK THEN r ELSE check_operands(Tail(ops), o)

check_And(a, o) == check_operands(a.operands, o)

\* mutant of check_Some: the filler is not checked
check_Some_filler_unchecked(s, o) == check_ObjectProperty(s.object_property, o)

check_Some(s, o) ==
    LET r == check_ObjectProperty(s.object_property, o)
    IN  IF r # OK THEN r ELSE check_ClassExpression(s.filler, o)

check_ClassExpression(e, o) ==
    CASE e.tag = "Class" -> check_Class(e.class, o)
      [] e.tag = "Some"  -> check_Some(e.some, o)
      [] e.tag = "And"   -> check_And(e.and, o)
      [] e.tag = "Or"    -> check_And(e.and, o)

check_SubClass(sc, o) ==
    LET r == check_ClassExpression(sc.superclass, o)
    IN  IF r # OK THEN r ELSE check_ClassExpression(sc.subclass, o)

(***************************************************************************)
(* How the call made last ended.  A method that returns says which of its  *)
(* return statements it left through: "found" is the early return on a     *)
(* value that was there already, "end" the return at the end of the body.  *)
(***************************************************************************)
Returned(op, o, v, at) ==
    [op |-> op, ont |-> o, outcome |-> "ok", ret |-> v, at |-> at]

Panicked(op, msg) == [op |-> op, outcome |-> "panic", msg |-> msg]

Answered(op, v) == [op |-> op, outcome |-> "ok", ret |-> v]

(***************************************************************************)
(* Ontology::new for every instance; COUNTER starts at 0.                  *)
(***************************************************************************)
\* a thread that is in no method
Idle == [pc |-> "idle"]

Ontology_new ==
    [id_str |-> BiMap_new, class |-> {}, subclass |-> {},
     object_property |-> {}, some |-> {}, and |-> {}]

Init ==
    /\ COUNTER = 0
    /\ id_str = [o \in Onts |-> Ontology_new.id_str]
    /\ class = [o \in Onts |-> Ontology_new.class]
    /\ subclass = [o \in Onts |-> Ontology_new.subclass]
    /\ object_property = [o \in Onts |-> Ontology_new.object_property]
    /\ some = [o \in Onts |-> Ontology_new.some]
    /\ and = [o \in Onts |-> Ontology_new.and]
    /\ last = Answered("new", <<>>)
    /\ thread = [o \in Onts |-> Idle]

(***************************************************************************)
(* Mutating methods.                                                       *)
(***************************************************************************)
\* mutant of next_id: COUNTER is returned without being incremented
next_id_not_incremented(c) == c

\* COUNTER = COUNTER + 1 on a usize
next_id(c) == (c + 1) % UsizeModulus

\* mutant of Ontology_iri: each instance numbers its own identifiers
Ontology_iri_counter_per_instance(o, s) ==
    LET someid == BiMap_get_by_right(id_str[o], s)
    IN  IF someid # <<>>
        THEN /\ last' = Returned("iri", o, IRI(someid[1]), "found")
             /\ UNCHANGED store
        ELSE LET id == Cardinality(DOMAIN id_str[o].left2right) + 1
             IN  /\ COUNTER' = next_id(COUNTER)
                 /\ id_str' = [id_str EXCEPT ![o] = BiMap_insert(@, id, s)]
                 /\ last' = Returned("iri", o, IRI(id), "end")
                 /\ UNCHANGED collections

\* mutant of Ontology_iri: the lookup of the name is skipped
Ontology_iri_without_lookup(o, s) ==
    LET id == next_id(COUNTER)
    IN  /\ COUNTER' = id
        /\ id_str' = [id_str EXCEPT ![o] = BiMap_insert(@, id, s)]
        /\ last' = Returned("iri", o, IRI(id), "end")
        /\ UNCHANGED collections

\* COUNTER + 1 at the largest usize: a build with overflow checks panics,
\* a build without them wraps (next_id)
next_id_outcomes(c) ==
    IF c + 1 >= UsizeModulus THEN {"value", "overflow"} ELSE {"value"}

Ontology_iri(o, s) ==
    LET someid == BiMap_get_by_right(id_str[o], s)
    IN  IF someid # <<>>
        THEN /\ last' = Returned("iri", o, IRI(someid[1]), "found")
             /\ UNCHANGED store
        ELSE \E outcome \in next_id_outcomes(COUNTER) :
                 IF outcome = "overflow"
                 THEN /\ last' = Panicked("iri", "attempt to add with overflow")
                      /\ UNCHANGED store
                 ELSE LET id == next_id(COUNTER)
                      IN  /\ COUNTER' = id
                          /\ id_str' = [id_str EXCEPT ![o] = BiMap_insert(@, id, s)]
                          /\ last' = Returned("iri", o, IRI(id), "end")
                          /\ UNCHANGED collections

Ontology_class(o, i) ==
    LET c == Class(i)
        r == check_Class(c, o)
    IN  IF r # OK
        THEN /\ last' = Panicked("class", r)
             /\ UNCHANGED store
        ELSE IF c \in class[o]
        THEN /\ last' = Returned("class", o, c, "found")
             /\ UNCHANGED store
        ELSE /\ class' = [class EXCEPT ![o] = @ \cup {c}]
             /\ last' = Returned("class", o, c, "end")
             /\ UNCHANGED <<COUNTER, id_str, subclass, object_property, some, and>>

Ontology_object_property(o, i) ==
    LET p == ObjectProperty(i)
        r == check_ObjectProperty(p, o)
    IN  IF r # OK
        THEN /\ last' = Panicked("object_property", r)
             /\ UNCHANGED store
        ELSE IF p \in object_property[o]
        THEN /\ last' = Returned("object_property", o, p, "found")
             /\ UNCHANGED store
        ELSE /\ object_property' = [object_property EXCEPT ![o] = @ \cup {p}]
             /\ last' = Returned("object_property", o, p, "end")
             /\ UNCHANGED <<COUNTER, id_str, class, subclass, some, and>>

\* mutant of subclass_exp_as: the insertion is left out
subclass_exp_without_insert(op, o, sup, sub) ==
    LET sc == SubClass(sup, sub)
        r == check_SubClass(sc, o)
    IN  /\ last' = IF r # OK THEN Panicked(op, r)
                   ELSE Returned(op, o, sc, IF sc \in subclass[o] THEN "found" ELSE "end")
        /\ UNCHANGED store

\* mutant of subclass_exp_as: a Class on either side is registered as well
subclass_exp_registering_classes(op, o, sup, sub) ==
    LET sc == SubClass(sup, sub)
        r == check_SubClass(sc, o)
        named == {e.class : e \in {x \in {sup, sub} : x.tag = "Class"}}
    IN  IF r # OK
        THEN /\ last' = Panicked(op, r)
             /\ UNCHANGED store
        ELSE IF sc \in subclass[o]
        THEN /\ last' = Returned(op, o, sc, "found")
             /\ UNCHANGED store
        ELSE /\ subclass' = [subclass EXCEPT ![o] = @ \cup {sc}]
             /\ class' = [class EXCEPT ![o] = @ \cup named]
             /\ last' = Returned(op, o, sc, "end")
             /\ UNCHANGED <<COUNTER, id_str, object_property, some, and>>

\* op is the public method the caller entered through
subclass_exp_as(op, o, sup, sub) ==
    LET sc == SubClass(sup, sub)
        r == check_SubClass(sc, o)
    IN  IF r # OK
        THEN /\ last' = Panicked(op, r)
             /\ UNCHANGED store
        ELSE IF sc \in subclass[o]
        THEN /\ last' = Returned(op, o, sc, "found")
             /\ UNCHANGED store
        ELSE /\ subclass' = [subclass EXCEPT ![o] = @ \cup {sc}]
             /\ last' = Returned(op, o, sc, "end")
             /\ UNCHANGED <<COUNTER, id_str, class, object_property, some, and>>

Ontology_subclass_exp(o, sup, sub) == subclass_exp_as("subclass_exp", o, sup, sub)

Ontology_subclass(o, sup, sub) ==
    subclass_exp_as("subclass", o, CE_Class(sup), CE_Class(sub))

\* mutant of some_exp_as: the candidate is inserted before it is checked
some_exp_insert_before_check(op, o, p, filler) ==
    LET e == CE_Some(Some(p, filler))
        r == check_ClassExpression(e, o)
    IN  /\ some' = [some EXCEPT ![o] = @ \cup {e}]
        /\ last' = IF r # OK THEN Panicked(op, r)
                   ELSE Returned(op, o, e, IF e \in some[o] THEN "found" ELSE "end")
        /\ UNCHANGED <<COUNTER, id_str, class, subclass, object_property, and>>

some_exp_as(op, o, p, filler) ==
    LET e == CE_Some(Some(p, filler))
        r == check_ClassExpression(e, o)
    IN  IF r # OK
        THEN /\ last' = Panicked(op, r)
             /\ UNCHANGED store
        ELSE IF e \in some[o]
        THEN /\ last' = Returned(op, o, e, "found")
             /\ UNCHANGED store
        ELSE /\ some' = [some EXCEPT ![o] = @ \cup {e}]
             /\ last' = Returned(op, o, e, "end")
             /\ UNCHANGED <<COUNTER, id_str, class, subclass, object_property, and>>

Ontology_some_exp(o, p, filler) == some_exp_as("some_exp", o, p, filler)

Ontology_some(o, p, c) == some_exp_as("some", o, p, CE_Class(c))

(***************************************************************************)
(* Query methods.  A HashSet is iterated in an order the caller cannot     *)
(* choose: order is that order, any arrangement of the collection.         *)
(***************************************************************************)
Orders(S) ==
    {f \in [1..Cardinality(S) -> S] :
        \A a, b \in 1..Cardinality(S) : a # b => f[a] # f[b]}

\* mutant of direct_subclass_exp: the two fields of SubClass are exchanged
direct_subclass_exp_fields_exchanged(o, c, order) ==
    LET kept == SelectSeq(order, LAMBDA sc : sc.subclass = c)
    IN  [k \in 1..Len(kept) |-> kept[k].superclass]

\* mutant of direct_subclass_exp: only the first match is returned
direct_subclass_exp_first_match(o, c, order) ==
    LET kept == SelectSeq(order, LAMBDA sc : sc.superclass = c)
    IN  [k \in 1..(IF kept = <<>> THEN 0 ELSE 1) |-> kept[k].subclass]

direct_subclass_exp(o, c, order) ==
    LET kept == SelectSeq(order, LAMBDA sc : sc.superclass = c)
    IN  [k \in 1..Len(kept) |-> kept[k].subclass]

direct_subclass(o, c, order) == direct_subclass_exp(o, CE_Class(c), order)

\* mutant of is_subclass_exp: a chain of two axioms is followed
is_subclass_exp_chain_followed(o, sup, sub) ==
    LET first == {sc \in subclass[o] : sc.superclass = sup /\ sc.subclass = sub}
        chain == {sc \in subclass[o] :
                     /\ sc.superclass = sup
                     /\ \E sd \in subclass[o] :
                           sd.superclass = sc.subclass /\ sd.subclass = sub}
    IN  first # {} \/ chain # {}

\* filter(..).next() is Some(_) iff an element passes the filter
is_subclass_exp(o, sup, sub) ==
    LET first == {sc \in subclass[o] : sc.superclass = sup /\ sc.subclass = sub}
    IN  first # {}

is_subclass(o, sup, sub) == is_subclass_exp(o, CE_Class(sup), CE_Class(sub))

Ontology_contains_id(o, id) ==
    /\ last' = Answered("contains_id", contains_id(o, id))
    /\ UNCHANGED store

\* mutant of Ontology_contains_iri: the name is looked up by interning it
Ontology_contains_iri_interning(o, s) ==
    LET id == next_id(COUNTER)
    IN  /\ last' = Answered("contains_iri", TRUE)
        /\ IF contains_iri(o, s)
           THEN UNCHANGED store
           ELSE /\ COUNTER' = id
                /\ id_str' = [id_str EXCEPT ![o] = BiMap_insert(@, id, s)]
                /\ UNCHANGED collections

Ontology_contains_iri(o, s) ==
    /\ last' = Answered("contains_iri", contains_iri(o, s))
    /\ UNCHANGED store

Ontology_iri_to_str(o, i) ==
    /\ last' = Answered("iri_to_str", iri_to_str(o, i))
    /\ UNCHANGED store

Ontology_direct_subclass_exp(o, c) ==
    \E order \in Orders(subclass[o]) :
        /\ last' = Answered("direct_subclass_exp", direct_subclass_exp(o, c, order))
        /\ UNCHANGED store

Ontology_direct_subclass(o, c) ==
    \E order \in Orders(subclass[o]) :
        /\ last' = Answered("direct_subclass", direct_subclass(o, c, order))
        /\ UNCHANGED store

Ontology_is_subclass_exp(o, sup, sub) ==
    /\ last' = Answered("is_subclass_exp", is_subclass_exp(o, sup, sub))
    /\ UNCHANGED store

Ontology_is_subclass(o, sup, sub) ==
    /\ last' = Answered("is_subclass", is_subclass(o, sup, sub))
    /\ UNCHANGED store

(***************************************************************************)
(* What a caller can pass: IRI values come from iri alone (the field of    *)
(* IRI is private), ObjectProperty values from object_property alone;      *)
(* Class, Some, And and the ClassExpression variants are built freely.     *)
(***************************************************************************)
Keys(o) == DOMAIN id_str[o].left2right

IssuedIRIs == {IRI(n) : n \in UNION {Keys(o) : o \in Onts}}

ObtainedProperties == UNION {object_property[o] : o \in Onts}

CallerClasses == {Class(i) : i \in IssuedIRIs}

SeqsUpTo(S, n) == UNION {[1..k -> S] : k \in 0..n}

\* the expressions of nesting up to d, with up to n operands in an And / Or
RECURSIVE ExprsOver(_, _, _, _)
ExprsOver(cs, ps, d, n) ==
    IF d = 0 THEN {CE_Class(c) : c \in cs}
    ELSE LET sub == ExprsOver(cs, ps, d - 1, n)
             ands == {And(ops) : ops \in SeqsUpTo(sub, n)}
         IN  sub \cup {CE_Some(Some(p, f)) : p \in ps, f \in sub}
                 \cup {CE_And(a) : a \in ands}
                 \cup {CE_Or(a) : a \in ands}

CallerExprs == ExprsOver(CallerClasses, ObtainedProperties, MaxDepth, MaxOperands)

CallerAtoms == ExprsOver(CallerClasses, ObtainedProperties, 0, 0)

Count(coll) == Cardinality(UNION {{<<o, x>> : x \in coll[o]} : o \in Onts})

\* a call that inserts is taken only below the bound on its collections
EntityBound == <<class, object_property>>' = <<class, object_property>>
                  \/ Count(class) + Count(object_property) < MaxEntities

ExpressionBound == <<subclass, some>>' = <<subclass, some>>
                      \/ Count(subclass) + Count(some) < MaxExpressions

AxiomBound == subclass' = subclass \/ Count(subclass) < MaxAxioms

(***************************************************************************)
(* Spec: the interner and the constructors, called in any order on any     *)
(* instance with anything a caller can build.                              *)
(***************************************************************************)
Next ==
    \/ \E o \in Onts : \E s \in Names[o] :
          /\ contains_iri(o, s) \/ COUNTER < MaxIds
          /\ Ontology_iri(o, s)
          /\ UNCHANGED thread
    \/ \E o \in Onts, i \in IssuedIRIs :
          /\ Ontology_class(o, i)
          /\ EntityBound
          /\ UNCHANGED thread
    \/ \E o \in Onts, i \in IssuedIRIs :
          /\ Ontology_object_property(o, i)
          /\ EntityBound
          /\ UNCHANGED thread
    \/ \E o \in Onts, sup \in CallerClasses, sub \in CallerClasses :
          /\ Ontology_subclass(o, sup, sub)
          /\ ExpressionBound
          /\ UNCHANGED thread
    \/ \E o \in Onts, sup \in CallerExprs, sub \in CallerExprs :
          /\ Ontology_subclass_exp(o, sup, sub)
          /\ ExpressionBound
          /\ UNCHANGED thread
    \/ \E o \in Onts, p \in ObtainedProperties, c \in CallerClasses :
          /\ Ontology_some(o, p, c)
          /\ ExpressionBound
          /\ UNCHANGED thread
    \/ \E o \in Onts, p \in ObtainedProperties, f \in CallerExprs :
          /\ Ontology_some_exp(o, p, f)
          /\ ExpressionBound
          /\ UNCHANGED thread

Spec == Init /\ [][Next]_vars

(***************************************************************************)
(* SpecQuery: a class hierarchy is asserted between named classes and      *)
(* every query method is called on it.                                     *)
(***************************************************************************)
NextQuery ==
    \/ \E o \in Onts : \E s \in QueryNames[o] :
          /\ contains_iri(o, s) \/ COUNTER < QueryMaxIds
          /\ Ontology_iri(o, s)
          /\ UNCHANGED thread
    \/ \E o \in Onts, sup \in CallerClasses, sub \in CallerClasses :
          /\ Ontology_subclass(o, sup, sub)
          /\ AxiomBound
          /\ UNCHANGED thread
    \/ \E o \in Onts, sup \in CallerAtoms, sub \in CallerAtoms :
          /\ Ontology_subclass_exp(o, sup, sub)
          /\ AxiomBound
          /\ UNCHANGED thread
    \/ \E o \in Onts, id \in 0..(COUNTER + 1) :
          /\ Ontology_contains_id(o, id)
          /\ UNCHANGED thread
    \/ \E o \in Onts, s \in UNION {QueryNames[q] : q \in Onts} :
          /\ Ontology_contains_iri(o, s)
          /\ UNCHANGED thread
    \/ \E o \in Onts, i \in IssuedIRIs :
          /\ Ontology_iri_to_str(o, i)
          /\ UNCHANGED thread
    \/ \E o \in Onts, c \in CallerClasses :
          /\ Ontology_direct_subclass(o, c)
          /\ UNCHANGED thread
    \/ \E o \in Onts, c \in CallerAtoms :
          /\ Ontology_direct_subclass_exp(o, c)
          /\ UNCHANGED thread
    \/ \E o \in Onts, sup \in CallerClasses, sub \in CallerClasses :
          /\ Ontology_is_subclass(o, sup, sub)
          /\ UNCHANGED thread
    \/ \E o \in Onts, sup \in CallerAtoms, sub \in CallerAtoms :
          /\ Ontology_is_subclass_exp(o, sup, sub)
          /\ UNCHANGED thread

SpecQuery == Init /\ [][NextQuery]_vars

(***************************************************************************)
(* SpecOverflow: names are interned into instances constructed in a        *)
(* process whose COUNTER holds any value of its type.                      *)
(***************************************************************************)
InitOverflow ==
    /\ COUNTER \in 0..(UsizeModulus - 1)
    /\ id_str = [o \in Onts |-> Ontology_new.id_str]
    /\ class = [o \in Onts |-> Ontology_new.class]
    /\ subclass = [o \in Onts |-> Ontology_new.subclass]
    /\ object_property = [o \in Onts |-> Ontology_new.object_property]
    /\ some = [o \in Onts |-> Ontology_new.some]
    /\ and = [o \in Onts |-> Ontology_new.and]
    /\ last = Answered("new", <<>>)
    /\ thread = [o \in Onts |-> Idle]

NextOverflow ==
    \/ \E o \in Onts : \E s \in Names[o] :
          /\ Ontology_iri(o, s)
          /\ UNCHANGED thread
    \/ \E o \in Onts, id \in 0..(UsizeModulus - 1) :
          /\ Ontology_contains_id(o, id)
          /\ UNCHANGED thread

SpecOverflow == InitOverflow /\ [][NextOverflow]_vars

(***************************************************************************)
(* SpecThreads: each instance o is owned by one thread, also called o, and *)
(* the threads call iri at the same time.  id_str of an instance is        *)
(* touched by its owner alone; COUNTER is a static mut that next_id reads, *)
(* writes and reads again with plain loads and stores, so the steps of two *)
(* threads interleave.                                                     *)
(***************************************************************************)
\* iri up to the call of next_id: the lookup of the name
iri_get_by_right(o, s) ==
    LET someid == BiMap_get_by_right(id_str[o], s)
    IN  /\ thread[o].pc = "idle"
        /\ IF someid # <<>>
           THEN /\ last' = Returned("iri", o, IRI(someid[1]), "found")
                /\ UNCHANGED thread
           ELSE /\ thread' = [thread EXCEPT ![o] = [pc |-> "next_id_read", s |-> s]]
                /\ UNCHANGED last
        /\ UNCHANGED store

\* the load of COUNTER in COUNTER + 1
next_id_read(o) ==
    /\ thread[o].pc = "next_id_read"
    /\ thread' = [thread EXCEPT ![o] =
                     [pc |-> "next_id_write", s |-> thread[o].s, read |-> COUNTER]]
    /\ UNCHANGED <<store, last>>

\* the store of COUNTER = COUNTER + 1, with the value loaded before
next_id_write(o) ==
    /\ thread[o].pc = "next_id_write"
    /\ \E outcome \in next_id_outcomes(thread[o].read) :
          IF outcome = "overflow"
          THEN /\ last' = Panicked("iri", "attempt to add with overflow")
               /\ thread' = [thread EXCEPT ![o] = Idle]
               /\ UNCHANGED store
          ELSE /\ COUNTER' = next_id(thread[o].read)
               /\ thread' = [thread EXCEPT ![o] =
                                [pc |-> "next_id_return", s |-> thread[o].s,
                                 written |-> next_id(thread[o].read)]]
               /\ UNCHANGED <<id_str, collections, last>>

\* the value of next_id is COUNTER loaded again, or the value written when
\* the build keeps it in a register; iri inserts the pair and returns
next_id_return(o) ==
    /\ thread[o].pc = "next_id_return"
    /\ \E id \in {COUNTER, thread[o].written} :
          /\ id_str' = [id_str EXCEPT ![o] = BiMap_insert(@, id, thread[o].s)]
          /\ last' = Returned("iri", o, IRI(id), "end")
    /\ thread' = [thread EXCEPT ![o] = Idle]
    /\ UNCHANGED <<COUNTER, collections>>

NextThreads ==
    \/ \E o \in Onts : \E s \in Names[o] : iri_get_by_right(o, s)
    \/ \E o \in Onts : next_id_read(o)
    \/ \E o \in Onts : next_id_write(o)
    \/ \E o \in Onts : next_id_return(o)

SpecThreads == Init /\ [][NextThreads]_vars

(***************************************************************************)
(* Vocabulary of the properties.                                           *)
(***************************************************************************)
Constructors ==
    {"class", "object_property", "subclass", "subclass_exp", "some", "some_exp"}

Messages ==
    {"Attempt to add class to wrong ontology",
     "Attempt to add object property to wrong ontology"}

Range(f) == {f[k] : k \in DOMAIN f}

\* every identifier a ClassExpression refers to, at any depth
RECURSIVE IdsIn(_)
IdsIn(e) ==
    CASE e.tag = "Class" -> {e.class.iri.iri}
      [] e.tag = "Some"  -> {e.some.object_property.iri.iri} \cup IdsIn(e.some.filler)
      [] e.tag \in {"And", "Or"} ->
            UNION {IdsIn(e.and.operands[k]) : k \in DOMAIN e.and.operands}

IdsInAxiom(sc) == IdsIn(sc.superclass) \cup IdsIn(sc.subclass)

\* every identifier in the value a constructor returned, which is the value
\* it built from its arguments
IdsInValue(op, v) ==
    CASE op \in {"class", "object_property"} -> {v.iri.iri}
      [] op \in {"subclass", "subclass_exp"} -> IdsInAxiom(v)
      [] op \in {"some", "some_exp"} -> IdsIn(v)

ConstructorReturned == last.outcome = "ok" /\ last.op \in Constructors

ConstructorPanicked == last.outcome = "panic" /\ last.op \in Constructors

(***************************************************************************)
(* C1. Cross-instance rejection: a constructor of instance O2 called with  *)
(* an identifier that O1.iri returned (O1 # O2), or with a value built     *)
(* from it, panics.  Stated on the call that ended last: it ended in the   *)
(* return of a value or in one of the Checkable panics, and when it        *)
(* returned, no identifier in the value built from its arguments is a key  *)
(* of another instance's interning table.                                  *)
(***************************************************************************)
CrossInstanceRejection ==
    /\ last.outcome \in {"ok", "panic"}
    /\ last.outcome = "panic" => last.op \in Constructors /\ last.msg \in Messages
    /\ ConstructorReturned =>
          \A o1 \in Onts \ {last.ont} :
              IdsInValue(last.op, last.ret) \cap Keys(o1) = {}

\* object_property(i) has panicked while each instance has interned a name:
\* i is an identifier of the other instance
ForeignIdentifierRejected ==
    /\ ConstructorPanicked
    /\ last.op = "object_property"
    /\ \A o \in Onts : Keys(o) # {}

(***************************************************************************)
(* C2. Abort-before-mutation: a constructor call that fails validation     *)
(* leaves COUNTER, the interning table and the five collections of every   *)
(* instance as they were, also when only a part of the candidate is        *)
(* foreign.                                                                *)
(***************************************************************************)
AbortBeforeMutation == [][last'.outcome = "panic" => UNCHANGED store]_vars

\* some_exp has panicked in the check of the filler: the object property
\* passed its check, the filler is foreign; a Some value is stored already
PartlyForeignCandidateRejected ==
    /\ ConstructorPanicked
    /\ last.op = "some_exp"
    /\ last.msg = "Attempt to add class to wrong ontology"
    /\ \E o \in Onts : some[o] # {}

(***************************************************************************)
(* C3. Referential integrity: every identifier reachable from an element   *)
(* of the class, object_property, subclass, some and and collections of an *)
(* instance is a key of that instance's interning table.                   *)
(***************************************************************************)
ReferentialIntegrity ==
    \A o \in Onts :
        /\ \A c \in class[o] : contains_id(o, c.iri.iri)
        /\ \A p \in object_property[o] : contains_id(o, p.iri.iri)
        /\ \A sc \in subclass[o] : \A id \in IdsInAxiom(sc) : contains_id(o, id)
        /\ \A e \in some[o] : \A id \in IdsIn(e) : contains_id(o, id)
        /\ \A a \in and[o] : \A id \in IdsIn(CE_And(a)) : contains_id(o, id)

\* an axiom between a Some and an And / Or with an operand is stored
CompoundAxiomStored ==
    \E o \in Onts : \E sc \in subclass[o] :
        /\ sc.superclass.tag = "Some"
        /\ sc.subclass.tag \in {"And", "Or"}
        /\ sc.subclass.and.operands # <<>>

(***************************************************************************)
(* C4. Interning idempotence: iri(s) returns an IRI that the table of the  *)
(* instance binds to s and that iri_to_str resolves to s; the binding of   *)
(* an interned name is kept by every step, so two calls iri(s) return the  *)
(* same IRI whatever happens between them; and iri(s) for an interned s    *)
(* leaves the interning table and COUNTER as they were.                    *)
(***************************************************************************)
AllNames == UNION {Names[o] \cup QueryNames[o] : o \in Onts}

InterningIdempotence ==
    [][\A o \in Onts : \A s \in AllNames :
          /\ contains_iri(o, s) =>
                BiMap_get_by_right(id_str'[o], s) = BiMap_get_by_right(id_str[o], s)
          /\ Ontology_iri(o, s) =>
                /\ BiMap_get_by_right(id_str'[o], s) = <<last'.ret.iri>>
                /\ BiMap_get_by_left(id_str'[o], last'.ret.iri) = <<s>>
                /\ contains_iri(o, s) =>
                      /\ UNCHANGED <<COUNTER, id_str>>
                      /\ BiMap_get_by_right(id_str[o], s) = <<last'.ret.iri>>
      ]_vars

\* iri has returned an identifier it found, after a later one was allocated
InternedNameReturnedAgain ==
    /\ last.op = "iri"
    /\ last.at = "found"
    /\ last.ret.iri < COUNTER

(***************************************************************************)
(* C5. Bijection invariant: the two maps of an interning table are exact   *)
(* inverses, so no name is bound to two identifiers and no identifier to   *)
(* two names; contains_id(id) iff iri_to_str(id) is not None;              *)
(* contains_iri(s) iff some identifier resolves to s; and a step never     *)
(* displaces a pair that is in the table.                                  *)
(***************************************************************************)
Usizes == 0..(UsizeModulus - 1)

Bijection ==
    \A o \in Onts :
        LET m == id_str[o]
        IN  /\ \A l \in DOMAIN m.left2right :
                  /\ m.left2right[l] \in DOMAIN m.right2left
                  /\ m.right2left[m.left2right[l]] = l
            /\ \A r \in DOMAIN m.right2left :
                  /\ m.right2left[r] \in DOMAIN m.left2right
                  /\ m.left2right[m.right2left[r]] = r
            /\ \A id \in Usizes : contains_id(o, id) <=> iri_to_str(o, IRI(id)) # <<>>
            /\ \A s \in AllNames :
                  contains_iri(o, s) <=> \E id \in Usizes : iri_to_str(o, IRI(id)) = <<s>>

NoDisplacement ==
    \A o \in Onts : \A l \in DOMAIN id_str[o].left2right :
        /\ l \in DOMAIN id_str'[o].left2right
        /\ id_str'[o].left2right[l] = id_str[o].left2right[l]

BijectionInvariant == []Bijection /\ [][NoDisplacement]_vars

\* iri has inserted a pair into a table that held a pair already
SecondPairInserted ==
    /\ last.op = "iri"
    /\ last.at = "end"
    /\ Cardinality(Keys(last.ont)) >= 2

(***************************************************************************)
(* C6. The identifier spaces of distinct instances are disjoint: no        *)
(* identifier is a key of the interning tables of two instances, so a name *)
(* interned in two instances has two different identifiers.                *)
(***************************************************************************)
DisjointIdentifierSpaces ==
    \A o1 \in Onts : \A o2 \in Onts \ {o1} :
        /\ Keys(o1) \cap Keys(o2) = {}
        /\ \A s \in AllNames :
              contains_iri(o1, s) /\ contains_iri(o2, s) =>
                  id_str[o1].right2left[s] # id_str[o2].right2left[s]

\* one name is interned in every instance
SameNameInEveryInstance ==
    \E s \in AllNames : \A o \in Onts : contains_iri(o, s)

(***************************************************************************)
(* C7. Validation is compositional and complete: check of a                *)
(* ClassExpression or of a SubClass against instance o succeeds iff every  *)
(* identifier reachable from it (of a Class or of the object property of a *)
(* Some, at any depth) is a key of o's interning table; an And / Or        *)
(* without operands succeeds.                                              *)
(***************************************************************************)
CheckedExprs ==
    ExprsOver(CallerClasses, ObtainedProperties, MaxDepth + 1, MaxOperands)
        \cup ExprsOver(CallerClasses, ObtainedProperties, MaxDepth, MaxOperands + 1)

ValidationCompositional ==
    \A o \in Onts :
        /\ \A e \in CheckedExprs :
              check_ClassExpression(e, o) = OK <=> IdsIn(e) \subseteq Keys(o)
        /\ \A sup \in CallerExprs : \A sub \in CallerExprs :
              check_SubClass(SubClass(sup, sub), o) = OK
                  <=> IdsInAxiom(SubClass(sup, sub)) \subseteq Keys(o)
        /\ check_ClassExpression(CE_And(And(<<>>)), o) = OK
        /\ check_ClassExpression(CE_Or(And(<<>>)), o) = OK

\* some has panicked in the check of its class: the object property is valid
ValidPropertyForeignFiller ==
    /\ ConstructorPanicked
    /\ last.op = "some"
    /\ last.msg = "Attempt to add class to wrong ontology"

(***************************************************************************)
(* C8. Deduplication: a constructor that returns has its value in its      *)
(* collection, once; called with a value the collection holds already it   *)
(* returns through the early return and changes no collection; and no step *)
(* removes an element, so the second of two calls with equal arguments     *)
(* finds the value of the first.  The value returned is the value built    *)
(* from the arguments.                                                     *)
(***************************************************************************)
\* the collection of a constructor, before and after a step
Held(op, o) ==
    CASE op = "class" -> class[o]
      [] op = "object_property" -> object_property[o]
      [] op \in {"subclass", "subclass_exp"} -> subclass[o]
      [] op \in {"some", "some_exp"} -> some[o]

HeldAfter(op, o) ==
    CASE op = "class" -> class'[o]
      [] op = "object_property" -> object_property'[o]
      [] op \in {"subclass", "subclass_exp"} -> subclass'[o]
      [] op \in {"some", "some_exp"} -> some'[o]

BuiltFromArguments ==
    CASE last'.op = "class" -> Ontology_class(last'.ont, last'.ret.iri)
      [] last'.op = "object_property" ->
            Ontology_object_property(last'.ont, last'.ret.iri)
      [] last'.op = "subclass" ->
            /\ last'.ret.superclass.tag = "Class"
            /\ last'.ret.subclass.tag = "Class"
            /\ Ontology_subclass(last'.ont, last'.ret.superclass.class,
                                 last'.ret.subclass.class)
      [] last'.op = "subclass_exp" ->
            Ontology_subclass_exp(last'.ont, last'.ret.superclass, last'.ret.subclass)
      [] last'.op = "some" ->
            /\ last'.ret.tag = "Some"
            /\ last'.ret.some.filler.tag = "Class"
            /\ Ontology_some(last'.ont, last'.ret.some.object_property,
                             last'.ret.some.filler.class)
      [] last'.op = "some_exp" ->
            /\ last'.ret.tag = "Some"
            /\ Ontology_some_exp(last'.ont, last'.ret.some.object_property,
                                 last'.ret.some.filler)

Deduplication ==
    [][/\ \A o \in Onts :
             /\ class[o] \subseteq class'[o]
             /\ object_property[o] \subseteq object_property'[o]
             /\ subclass[o] \subseteq subclass'[o]
             /\ some[o] \subseteq some'[o]
       /\ ConstructorReturned' =>
             LET held == Held(last'.op, last'.ont)
                 holds == HeldAfter(last'.op, last'.ont)
             IN  /\ BuiltFromArguments
                 /\ last'.ret \in holds
                 /\ Cardinality({x \in holds : x = last'.ret}) = 1
                 /\ last'.ret \in held =>
                       /\ UNCHANGED collections
                       /\ last'.at = "found"
      ]_vars

\* subclass_exp has returned an axiom between compound expressions that the
\* subclass collection held already
DuplicateAxiomFound ==
    /\ ConstructorReturned
    /\ last.op = "subclass_exp"
    /\ last.at = "found"
    /\ last.ret.superclass.tag # "Class"

(***************************************************************************)
(* C9. direct_subclass_exp is exact: for every ClassExpression e and every *)
(* iteration order of the subclass collection, the elements returned are   *)
(* exactly the s with SubClass{superclass: e, subclass: s} in the          *)
(* collection, each once, and the call returns such a result;              *)
(* direct_subclass(c) is direct_subclass_exp(ClassExpression::Class(c));   *)
(* when subclass(cA, cB) is the only assertion, is_subclass(cA, cB) is     *)
(* true and direct_subclass(cA) is [cB].                                   *)
(***************************************************************************)
DirectSubclassesOf(o, e) ==
    {sc.subclass : sc \in {x \in subclass[o] : x.superclass = e}}

NoDuplicates(seq) ==
    \A a \in DOMAIN seq : \A b \in DOMAIN seq : a # b => seq[a] # seq[b]

DirectSubclassFunctionExact ==
    \A o \in Onts : \A order \in Orders(subclass[o]) :
        /\ \A e \in CallerExprs :
              LET r == direct_subclass_exp(o, e, order)
              IN  NoDuplicates(r) /\ Range(r) = DirectSubclassesOf(o, e)
        /\ \A c \in CallerClasses :
              direct_subclass(o, c, order) = direct_subclass_exp(o, CE_Class(c), order)
        /\ \A cA \in CallerClasses : \A cB \in CallerClasses :
              subclass[o] = {SubClass(CE_Class(cA), CE_Class(cB))} =>
                  /\ is_subclass(o, cA, cB)
                  /\ direct_subclass(o, cA, order) = <<CE_Class(cB)>>

DirectSubclassCallExact ==
    last'.op = "direct_subclass_exp" =>
        \A o \in Onts : \A e \in CallerAtoms :
            Ontology_direct_subclass_exp(o, e) =>
                NoDuplicates(last'.ret) /\ Range(last'.ret) = DirectSubclassesOf(o, e)

DirectSubclassExact ==
    []DirectSubclassFunctionExact /\ [][DirectSubclassCallExact]_vars

\* direct_subclass_exp has returned two subclasses
TwoDirectSubclassesReturned ==
    /\ last.op = "direct_subclass_exp"
    /\ Len(last.ret) = 2

(***************************************************************************)
(* C10. Direct-subclass query on two axioms with a common class A, for     *)
(* distinct classes A, B, C of one instance whose subclass collection      *)
(* holds exactly the two axioms.                                           *)
(***************************************************************************)
Axiom(sup, sub) == SubClass(CE_Class(sup), CE_Class(sub))

Triples ==
    {t \in CallerClasses \X CallerClasses \X CallerClasses :
        t[1] # t[2] /\ t[1] # t[3] /\ t[2] # t[3]}

\* C10 as claimed: A [= B and A [= C are read as subsumptions and stored by
\* subclass(B, A) and subclass(C, A); direct_subclass(A) returns {B, C} as
\* a set and direct_subclass(B) returns nothing.
DirectSubclassOfSubsumptionAxioms ==
    [][last'.op = "direct_subclass" =>
          \A o \in Onts : \A t \in Triples :
              subclass[o] = {Axiom(t[2], t[1]), Axiom(t[3], t[1])} =>
                  /\ Ontology_direct_subclass(o, t[1]) =>
                        Range(last'.ret) = {CE_Class(t[2]), CE_Class(t[3])}
                  /\ Ontology_direct_subclass(o, t[2]) => last'.ret = <<>>
      ]_vars

\* C10 as amended: with the two axioms asserted by subclass(A, B) and
\* subclass(A, C), A being the superclass, direct_subclass(A) returns
\* {B, C} as a set and direct_subclass(B) returns nothing; with them
\* asserted by subclass(B, A) and subclass(C, A), direct_subclass(A)
\* returns nothing and direct_subclass(B) returns [A].
DirectSubclassOfSuperclassAxioms ==
    [][last'.op = "direct_subclass" =>
          \A o \in Onts : \A t \in Triples :
              /\ subclass[o] = {Axiom(t[1], t[2]), Axiom(t[1], t[3])} =>
                    /\ Ontology_direct_subclass(o, t[1]) =>
                          /\ Range(last'.ret) = {CE_Class(t[2]), CE_Class(t[3])}
                          /\ Len(last'.ret) = 2
                    /\ Ontology_direct_subclass(o, t[2]) => last'.ret = <<>>
              /\ subclass[o] = {Axiom(t[2], t[1]), Axiom(t[3], t[1])} =>
                    /\ Ontology_direct_subclass(o, t[1]) => last'.ret = <<>>
                    /\ Ontology_direct_subclass(o, t[2]) => last'.ret = <<CE_Class(t[1])>>
      ]_vars

\* direct_subclass has returned both subclasses of a class that is the
\* superclass of the only two axioms of its instance
BothSubclassesReturned ==
    /\ last.op = "direct_subclass"
    /\ Len(last.ret) = 2
    /\ \E o \in Onts : \E t \in Triples :
          /\ subclass[o] = {Axiom(t[1], t[2]), Axiom(t[1], t[3])}
          /\ Range(last.ret) = {CE_Class(t[2]), CE_Class(t[3])}

(***************************************************************************)
(* C11. is_subclass_exp answers only asserted facts: is_subclass_exp(p, q) *)
(* is true iff SubClass{superclass: p, subclass: q} is in the subclass     *)
(* collection, and the call returns that value.  No transitive inference:  *)
(* when the only axioms relate A with B and B with C (A, B, C distinct),   *)
(* is_subclass(A, C) and is_subclass(C, A) are false.  No symmetry: with   *)
(* (p, q) stored and (q, p) not, is_subclass_exp(q, p) is false.           *)
(***************************************************************************)
Related(x, y) == {Axiom(x, y), Axiom(y, x)}

\* subclass[o] is one axiom between t[1] and t[2] and one between t[2] and t[3]
ChainOf(o, t) ==
    \E ab \in Related(t[1], t[2]) : \E bc \in Related(t[2], t[3]) :
        subclass[o] = {ab, bc}

OnlyAssertedFacts ==
    \A o \in Onts :
        /\ \A p \in CallerExprs : \A q \in CallerExprs :
              /\ is_subclass_exp(o, p, q) <=> SubClass(p, q) \in subclass[o]
              /\ (SubClass(p, q) \in subclass[o] /\ SubClass(q, p) \notin subclass[o])
                    => ~is_subclass_exp(o, q, p)
        /\ \A c \in CallerClasses : \A d \in CallerClasses :
              is_subclass(o, c, d) <=> Axiom(c, d) \in subclass[o]
        /\ \A t \in Triples :
              ChainOf(o, t) => ~is_subclass(o, t[1], t[3]) /\ ~is_subclass(o, t[3], t[1])

OnlyAssertedFactsAnswered ==
    /\ last'.op = "is_subclass_exp" =>
          \A o \in Onts : \A p \in CallerAtoms : \A q \in CallerAtoms :
              Ontology_is_subclass_exp(o, p, q) =>
                  last'.ret = (SubClass(p, q) \in subclass[o])
    /\ last'.op = "is_subclass" =>
          \A o \in Onts : \A c \in CallerClasses : \A d \in CallerClasses :
              Ontology_is_subclass(o, c, d) =>
                  last'.ret = (Axiom(c, d) \in subclass[o])

NoTransitiveInference ==
    []OnlyAssertedFacts /\ [][OnlyAssertedFactsAnswered]_vars

\* is_subclass has answered false on an instance holding a chain of two
\* axioms, where the ends of the chain are not related by an axiom
ChainEndsAnsweredFalse ==
    /\ last.op = "is_subclass"
    /\ last.ret = FALSE
    /\ \E o \in Onts : \E t \in Triples :
          /\ subclass[o] = {Axiom(t[1], t[2]), Axiom(t[2], t[3])}
          /\ ~is_subclass(o, t[1], t[3])

(***************************************************************************)
(* C12. Append-only store: across every step, for every instance, every    *)
(* identifier/name pair of the interning table is still bound, in both     *)
(* directions and to the same partner, and each of the five collections    *)
(* contains what it contained before the step.                             *)
(***************************************************************************)
Extends(f, g) == \A x \in DOMAIN f : x \in DOMAIN g /\ g[x] = f[x]

AppendOnlyStep ==
    \A o \in Onts :
        /\ Extends(id_str[o].left2right, id_str'[o].left2right)
        /\ Extends(id_str[o].right2left, id_str'[o].right2left)
        /\ class[o] \subseteq class'[o]
        /\ subclass[o] \subseteq subclass'[o]
        /\ object_property[o] \subseteq object_property'[o]
        /\ some[o] \subseteq some'[o]
        /\ and[o] \subseteq and'[o]

AppendOnly == [][AppendOnlyStep]_vars

\* a second name has been interned into an instance that holds a class,
\* and the first binding and the class are still there
InsertedNextToEarlierContent ==
    /\ last.op = "iri"
    /\ last.at = "end"
    /\ Cardinality(Keys(last.ont)) = 2
    /\ class[last.ont] # {}

(***************************************************************************)
(* C13. Monotonic allocation: for every value COUNTER can hold before the  *)
(* call, iri(s) with a name s that is not interned in the instance returns *)
(* an identifier that is greater than the identifier issued last (COUNTER) *)
(* and than every identifier an instance holds, and binds it to s in the   *)
(* same step.                                                              *)
(***************************************************************************)
MonotonicAllocationStep ==
    \A o \in Onts : \A s \in Names[o] :
        (~contains_iri(o, s) /\ Ontology_iri(o, s)) =>
            /\ last'.outcome = "ok"
            /\ last'.ret.iri > COUNTER
            /\ \A q \in Onts : \A k \in Keys(q) : last'.ret.iri > k
            /\ BiMap_get_by_left(id_str'[o], last'.ret.iri) = <<s>>
            /\ BiMap_get_by_right(id_str'[o], s) = <<last'.ret.iri>>

MonotonicAllocation == [][MonotonicAllocationStep]_vars

(***************************************************************************)
(* C14. Atomic identifier allocation under concurrent construction: when   *)
(* two threads, each owning its instance, call iri with new names at the   *)
(* same time, every increment of COUNTER leaves it one greater than it was *)
(* just before (no read-add-write is interleaved with another thread's),   *)
(* and no identifier is a key of the interning tables of two instances.    *)
(***************************************************************************)
IncrementAtomic ==
    \A o \in Onts :
        (thread[o].pc = "next_id_write" /\ thread'[o].pc = "next_id_return")
            => COUNTER' = next_id(COUNTER)

NoCommonIdentifier ==
    \A o \in Onts : \A q \in Onts \ {o} :
        \A id \in Keys(o) : ~contains_id(q, id)

AtomicAllocation == []NoCommonIdentifier /\ [][IncrementAtomic]_vars

(***************************************************************************)
(* C15. Queries are total and read-only: contains_id, contains_iri,        *)
(* iri_to_str, direct_subclass, direct_subclass_exp, is_subclass and       *)
(* is_subclass_exp can be called with every argument, identifiers and      *)
(* expressions of another instance included, return a value of their       *)
(* result type, never panic, and leave COUNTER, the interning table and    *)
(* the five collections as they were.                                      *)
(***************************************************************************)
Queries ==
    {"contains_id", "contains_iri", "iri_to_str", "direct_subclass",
     "direct_subclass_exp", "is_subclass", "is_subclass_exp"}

OptionOfName == {<<>>} \cup {<<s>> : s \in AllNames}

QueriesTotal ==
    \A o \in Onts :
        /\ \A id \in Usizes :
              contains_id(o, id) \in BOOLEAN /\ ENABLED Ontology_contains_id(o, id)
        /\ \A s \in AllNames :
              contains_iri(o, s) \in BOOLEAN /\ ENABLED Ontology_contains_iri(o, s)
        /\ \A i \in IssuedIRIs :
              iri_to_str(o, i) \in OptionOfName /\ ENABLED Ontology_iri_to_str(o, i)
        /\ \A c \in CallerClasses :
              /\ ENABLED Ontology_direct_subclass(o, c)
              /\ \A d \in CallerClasses :
                    /\ is_subclass(o, c, d) \in BOOLEAN
                    /\ ENABLED Ontology_is_subclass(o, c, d)
        /\ \A e \in CallerAtoms :
              /\ ENABLED Ontology_direct_subclass_exp(o, e)
              /\ \A order \in Orders(subclass[o]) :
                    Len(direct_subclass_exp(o, e, order)) \in 0..Cardinality(subclass[o])
              /\ \A f \in CallerAtoms :
                    /\ is_subclass_exp(o, e, f) \in BOOLEAN
                    /\ ENABLED Ontology_is_subclass_exp(o, e, f)

QueriesReadOnlyStep ==
    last'.op \in Queries => (last'.outcome = "ok" /\ UNCHANGED store)

QueriesTotalAndReadOnly == []QueriesTotal /\ [][QueriesReadOnlyStep]_vars

\* iri_to_str has answered None: its argument came from another instance,
\* and the instance it was called on holds an axiom
ForeignIdentifierResolvedToNone ==
    /\ last.op = "iri_to_str"
    /\ last.ret = <<>>
    /\ \A o \in Onts : Keys(o) # {}
    /\ \E o \in Onts : subclass[o] # {}

(***************************************************************************)
(* C16. Constructors touch only their own collection: a call of class,     *)
(* object_property, subclass, subclass_exp, some or some_exp that returns  *)
(* leaves COUNTER and the interning tables unchanged, adds nothing but the *)
(* value it returns to its own collection of its own instance and leaves   *)
(* every other collection unchanged; the and collection stays empty.       *)
(***************************************************************************)
OwnCollectionOnly(op, o) ==
    /\ UNCHANGED <<COUNTER, id_str, and>>
    /\ HeldAfter(op, o) \in {Held(op, o), Held(op, o) \cup {last'.ret}}
    /\ Cardinality(HeldAfter(op, o)) <= Cardinality(Held(op, o)) + 1
    /\ op # "class" => UNCHANGED class
    /\ op # "object_property" => UNCHANGED object_property
    /\ op \notin {"subclass", "subclass_exp"} => UNCHANGED subclass
    /\ op \notin {"some", "some_exp"} => UNCHANGED some
    /\ \A q \in Onts \ {o} :
          /\ class'[q] = class[q]
          /\ object_property'[q] = object_property[q]
          /\ subclass'[q] = subclass[q]
          /\ some'[q] = some[q]

AndEmpty == \A o \in Onts : and[o] = {}

ConstructorFrame ==
    /\ []AndEmpty
    /\ [][ConstructorReturned' => OwnCollectionOnly(last'.op, last'.ont)]_vars

\* an axiom has been inserted into an instance that has no class, no object
\* property and no restriction registered
AxiomStoredNothingRegistered ==
    /\ ConstructorReturned
    /\ last.op \in {"subclass", "subclass_exp"}
    /\ last.at = "end"
    /\ last.ret \in subclass[last.ont]
    /\ class[last.ont] = {}
    /\ object_property[last.ont] = {}
    /\ some[last.ont] = {}

(***************************************************************************)
(* C17. Object properties in stored restrictions are defined: every        *)
(* ObjectProperty that occurs at any depth in an element of some or of     *)
(* subclass of an instance is a member of object_property of that          *)
(* instance.  (A Class in such an element need not be a member of class.)  *)
(***************************************************************************)
RECURSIVE PropertiesIn(_)
PropertiesIn(e) ==
    CASE e.tag = "Class" -> {}
      [] e.tag = "Some"  -> {e.some.object_property} \cup PropertiesIn(e.some.filler)
      [] e.tag \in {"And", "Or"} ->
            UNION {PropertiesIn(e.and.operands[k]) : k \in DOMAIN e.and.operands}

RECURSIVE ClassesIn(_)
ClassesIn(e) ==
    CASE e.tag = "Class" -> {e.class}
      [] e.tag = "Some"  -> ClassesIn(e.some.filler)
      [] e.tag \in {"And", "Or"} ->
            UNION {ClassesIn(e.and.operands[k]) : k \in DOMAIN e.and.operands}

StoredPropertiesDefined ==
    \A o \in Onts :
        /\ \A e \in some[o] : PropertiesIn(e) \subseteq object_property[o]
        /\ \A sc \in subclass[o] :
              PropertiesIn(sc.superclass) \cup PropertiesIn(sc.subclass)
                  \subseteq object_property[o]

\* a restriction is stored whose object property is defined in its instance
\* and whose filler names a class that is not
RestrictionOnUndefinedClass ==
    \E o \in Onts : \E e \in some[o] \cup {sc.superclass : sc \in subclass[o]} :
        /\ PropertiesIn(e) # {}
        /\ PropertiesIn(e) \subseteq object_property[o]
        /\ ClassesIn(e) # {}
        /\ ClassesIn(e) \cap class[o] = {}

====
